---- MODULE Spec2Model ----
(***************************************************************************)
(* Identifier resolution pipeline of ibkr-api.                             *)
(*                                                                         *)
(*   Spec   the IBKRManager of src/app/ibkr.py (connect, disconnect,       *)
(*          qualify_contracts, create_watchlist_from_symbols,              *)
(*          test_connection, load_symbols_from_file), driven either by an  *)
(*          arbitrary client of the class or by main() of                  *)
(*          src/scripts/apple_supplier/create_ibkr_watchlist.py.           *)
(*                                                                         *)
(* Python strings are sequences of one-character strings, so that len,     *)
(* strip, split and comparison are computed and not assumed.  A Python     *)
(* dict is the sequence of its items in insertion order.                   *)
(***************************************************************************)
EXTENDS Integers, Sequences, FiniteSets, TLC

\* ------------------------------------------------------------------ bounds

\* Longest symbol list a client passes to qualify_contracts.
MaxSymbols == 3
\* Largest batch_size a client passes to qualify_contracts.
MaxBatch == 2
\* Longest list ib.qualifyContracts returns.
MaxResp == 2
\* Most entries (lines, JSON values, CSV cells) of a symbol file.
MaxEntries == 2
\* Longest list of symbols where one call of qualify_contracts is followed
\* to its end, or two calls are compared.
MaxRerun == 2
\* Longest list of suppliers find_tickers is run on.
MaxNames == 2
\* Largest max_workers find_tickers is run with.
MaxWorkers == 2

\* ------------------------------------------------------- program constants

\* batch_size: int = 50
DefaultBatchSize == 50

\* --------------------------------------------------------- Python values

None == [none |-> TRUE]

Range(s) == {s[p] : p \in 1..Len(s)}

NoDuplicates(s) == \A p, q \in 1..Len(s) : s[p] = s[q] => p = q

SeqsUpTo(S, n) == UNION {[1..k -> S] : k \in 0..n}

\* d[k] of a dict: the value of the item with key k.
DictHas(d, k) == \E p \in 1..Len(d) : d[p].k = k

DictGet(d, k) == d[CHOOSE p \in 1..Len(d) : d[p].k = k].v

\* d[k] = v: an existing key keeps its place, a new key goes last.
DictSet(d, k, v) ==
    IF DictHas(d, k)
    THEN [p \in 1..Len(d) |-> IF d[p].k = k THEN [k |-> k, v |-> v] ELSE d[p]]
    ELSE Append(d, [k |-> k, v |-> v])

DictKeys(d) == [p \in 1..Len(d) |-> d[p].k]

DictValues(d) == [p \in 1..Len(d) |-> d[p].v]

\* ---------------------------------------------------------- Python strings

IsSpace(c) == c \in {" ", "\t", "\n"}

RECURSIVE LStrip(_)
LStrip(s) == IF s # <<>> /\ IsSpace(Head(s)) THEN LStrip(Tail(s)) ELSE s

RECURSIVE RStrip(_)
RStrip(s) ==
    IF s # <<>> /\ IsSpace(s[Len(s)]) THEN RStrip(SubSeq(s, 1, Len(s) - 1)) ELSE s

\* s.strip()
Strip(s) == RStrip(LStrip(s))

\* s.split(".")[0]
RECURSIVE BeforeDot(_)
BeforeDot(s) ==
    IF s = <<>> \/ Head(s) = "." THEN <<>> ELSE <<Head(s)>> \o BeforeDot(Tail(s))

\* ord(c), for the characters the inputs are written in.
Ord(c) ==
    CASE c = "\t" -> 9  [] c = "\n" -> 10 [] c = " " -> 32 [] c = "-" -> 45
      [] c = "." -> 46 [] c = "A" -> 65 [] c = "B" -> 66 [] c = "K" -> 75
      [] c = "L" -> 76 [] c = "P" -> 80 [] c = "R" -> 82

\* a < b on str: the first differing character decides, a proper prefix is less.
RECURSIVE StrLess(_, _)
StrLess(a, b) ==
    IF b = <<>> THEN FALSE
    ELSE IF a = <<>> THEN TRUE
    ELSE IF Head(a) # Head(b) THEN Ord(Head(a)) < Ord(Head(b))
    ELSE StrLess(Tail(a), Tail(b))

\* sorted(list(S)) of a set of str.
RECURSIVE Sorted(_)
Sorted(S) ==
    IF S = {} THEN <<>>
    ELSE LET m == CHOOSE x \in S : \A y \in S : x = y \/ StrLess(x, y)
         IN  <<m>> \o Sorted(S \ {m})

\* ------------------------------------------------------ contracts, backend

AAPL == <<"A", "A", "P", "L">>
BRK == <<"B", "R", "K">>
BA == <<"B", "A">>

\* Stock(symbol, exchange, currency), or a generic Contract with the four
\* fields set; conId and primaryExchange are filled in by the service.
create_contract(symbol, sec_type, exchange, currency) ==
    [symbol |-> symbol, secType |-> sec_type, exchange |-> exchange,
     currency |-> currency, conId |-> 0, primaryExchange |-> ""]

Cand(symbol, sec_type, currency, conId, primary) ==
    [symbol |-> symbol, secType |-> sec_type, exchange |-> "SMART",
     currency |-> currency, conId |-> conId, primaryExchange |-> primary]

\* The records the service may return: two records with the key of the
\* request for AAPL, records for AAPL that differ from it in currency or in
\* security type, and one record for BRK. It knows no record for BA.
Candidates ==
    {Cand(AAPL, "STK", "USD", 1, "NASDAQ"), Cand(AAPL, "STK", "USD", 2, ""),
     Cand(AAPL, "STK", "EUR", 3, "IBIS"), Cand(AAPL, "OPT", "USD", 4, ""),
     Cand(BRK, "STK", "USD", 5, "NYSE")}

\* What one call of ib.qualifyContracts may return: any list of distinct
\* records, in any order, whatever the batch that was sent.
Responses == {r \in SeqsUpTo(Candidates, MaxResp) : NoDuplicates(r)}

\* The symbol lists a client may pass; a symbol may occur more than once.
SymbolLists == SeqsUpTo({AAPL, BRK, BA}, MaxSymbols)

\* ------------------------------------------------------------ symbol files

\* What a line, a JSON value or a CSV cell may hold: two share classes of one
\* company, a plain symbol, a padded one, an empty one, and null / NaN.
RawStrings ==
    {AAPL, <<"B", "R", "K", ".", "A">>, <<"B", "R", "K", ".", "B">>,
     <<" ", "A", "A", "P", "L">>, <<>>}

\* A JSON null or a CSV NaN: an entry that is no string of characters.
Null == <<"null">>

RawValues == RawStrings \cup {Null}

\* A file: whether it exists, its suffix, and its entries in file order (the
\* lines of a .txt, the values of a .json list or mapping, the cells of the
\* Ticker column of a .csv). A line of a text file is never null.
Files ==
    {f \in [exists : BOOLEAN, suffix : {".txt", ".json", ".csv", ".xml"},
            entries : SeqsUpTo(RawValues, MaxEntries)] :
        /\ f.suffix = ".txt" => Null \notin Range(f.entries)
        /\ ~f.exists => f.entries = <<>>}

NotNull(x) == x # Null

NonBlank(x) == x # <<>> /\ Strip(x) # <<>>

\* Lines 410-432: the entries read, by format.
ReadEntries(f) ==
    IF f.suffix = ".txt"
    THEN SelectSeq([p \in 1..Len(f.entries) |-> Strip(f.entries[p])],
                   LAMBDA x : x # <<>>)
    ELSE SelectSeq(f.entries, NotNull)

\* Lines 437-439: blanks dropped, duplicates dropped, sorted, and then the
\* class suffix cut off each symbol.
Normalize(read) ==
    LET srt == Sorted({x \in Range(read) : NonBlank(x)})
    IN  [p \in 1..Len(srt) |-> BeforeDot(srt[p])]

\* A loader that takes a file it cannot read for a file without symbols.
LoadOrEmpty(f) ==
    IF ~f.exists \/ f.suffix \notin {".txt", ".json", ".csv"}
    THEN [kind |-> "value", val |-> <<>>]
    ELSE [kind |-> "value", val |-> Normalize(ReadEntries(f))]

\* load_symbols_from_file (lines 394-441): the list, or the exception.
load_symbols_from_file(f) ==
    IF ~f.exists THEN [kind |-> "exc", val |-> "FileNotFoundError"]
    ELSE IF f.suffix \notin {".txt", ".json", ".csv"}
    THEN [kind |-> "exc", val |-> "ValueError"]
    ELSE [kind |-> "value", val |-> Normalize(ReadEntries(f))]

\* main(): the first of ticker_list.txt, found_tickers_only.json and
\* apple_supplier_tickers.csv that exists (lines 20-30).
TickerFiles == {f \in Files : f.exists /\ f.suffix \in {".txt", ".json", ".csv"}}

\* ------------------------------------------------------------------ state

VARIABLES
    driver,               \* "api": a client of the class; "script": main()
    connected,            \* self.connected
    stack,                \* the call stack: frames [fn, pc], innermost last
    ret,                  \* what the last finished call returned or raised
    symbols,              \* qualify_contracts: its argument
    batch_size,           \* qualify_contracts: its argument
    i,                    \* qualify_contracts: the loop variable of line 119
    qualified_contracts,  \* qualify_contracts: the result dict
    qualified_batch,      \* qualify_contracts: what the last call returned
    calls,                \* history: the batch (request numbers) of each call
    failed,               \* history: the calls (by number) that raised
    assigned,             \* history: per request, the value written for it
    ref,                  \* history: the result dict had no call raised
    slept,                \* history: the calls (by number) followed by a pause
    op_calls,             \* history: ib.qualifyContracts calls of this run
    cw_symbols,           \* create_watchlist_from_symbols: its argument
    loaded,               \* main: symbols, Unset before they are loaded
    test_ok               \* main: "unset", then how test_connection ended

qvars == <<symbols, batch_size, i, qualified_contracts, qualified_batch,
           calls, failed, assigned, ref, slept>>

mvars == <<cw_symbols, loaded, test_ok>>

\* The state of one call of search_ticker.
VARIABLES
    supplier,             \* search_ticker: its argument company_name
    service,              \* the answers of the service to queries 1, 2, 3
    search_result,        \* Unset, then what search_ticker returned
    queries               \* history: the queries made, with their answers

svars == <<supplier, service, search_result, queries>>

\* The state of one call of find_tickers.
VARIABLES
    suppliers,            \* self.suppliers
    max_workers,          \* find_tickers: its argument
    t_pc,                 \* the calling thread: "submit", "drain", "done"
    futures,              \* the futures in submission order: [state, result]
    yielded,              \* the futures as_completed has yielded so far
    tickers,              \* find_tickers: the result dict
    completed_count,      \* find_tickers: line 271
    found_count,          \* find_tickers: line 272
    early,                \* as_completed: the futures done when it started
    finish_order,         \* history: the futures in the order they completed
    drain_order           \* history: the futures in the order they were yielded

tvars == <<suppliers, max_workers, t_pc, futures, yielded, tickers,
           completed_count, found_count, early, finish_order, drain_order>>

manager_vars == <<driver, connected, stack, ret, symbols, batch_size, i,
                  qualified_contracts, qualified_batch, calls, failed,
                  assigned, ref, slept, op_calls, cw_symbols, loaded,
                  test_ok>>

\* The state of AppleSupplierParser.run around find_tickers.
VARIABLES
    caller,               \* who calls find_tickers: "client" or "run"
    summary               \* Unset, then what run returned and printed

rvars == <<caller, summary>>

\* Running an operation twice against a service that answers a request
\* the same way every time.
VARIABLES
    deterministic,        \* whether the services answer that way
    ib_answers,           \* what ib.qualifyContracts has answered, by request
    search_answers,       \* what the search of a name has given, by name
    first_run             \* Unset, then the first of the two runs

ivars == <<deterministic, ib_answers, search_answers, first_run>>

vars == <<manager_vars, svars, tvars, rvars, ivars>>

Unset == [unset |-> TRUE]

Frame(fn, pc) == [fn |-> fn, pc |-> pc]

Top == stack[Len(stack)]

At(fn, pc) == Len(stack) > 0 /\ Top = Frame(fn, pc)

Pop == SubSeq(stack, 1, Len(stack) - 1)

Goto(pc) == [stack EXCEPT ![Len(stack)] = Frame(Top.fn, pc)]

Value(v) == [kind |-> "value", val |-> v]

Raised(e) == [kind |-> "exc", val |-> e]

NoRet == [kind |-> "none"]

\* -------------------------------------------------------- qualify_contracts

\* The guard left out: the call goes on without a session.
NotConnectedNeverRaises(c) == FALSE

\* if not self.connected: raise Exception("Not connected to IBKR TWS")
NotConnected(c) == ~c

\* contracts[idx], built with the default sec_type, exchange and currency,
\* which every caller in the repository uses (requests are numbered from 1).
Contract(idx) == create_contract(symbols[idx], "STK", "SMART", "USD")

Min(a, b) == IF a < b THEN a ELSE b

\* contracts[i : i + batch_size], as request numbers.
Batch(start, size, n) == [j \in 1..(Min(start + size, n) - start) |-> start + j]

\* A step one too long: the request after each batch is skipped.
NextStartSkipsOne(start, size) == start + size + 1

\* range(0, len(contracts), batch_size): the start after `start`.
NextStart(start, size) == start + size

\* The composite key of lines 134-138.
KeyMatches(q_contract, original_contract) ==
    /\ q_contract.symbol = original_contract.symbol
    /\ q_contract.currency = original_contract.currency
    /\ q_contract.secType = original_contract.secType

RECURSIVE ScanFrom(_, _, _)
ScanFrom(qb, original_contract, p) ==
    IF p > Len(qb) THEN None
    ELSE IF KeyMatches(qb[p], original_contract) THEN qb[p]
    ELSE ScanFrom(qb, original_contract, p + 1)

\* The scan without its break: the last record with the key wins.
RECURSIVE ScanAll(_, _, _, _)
ScanAll(qb, original_contract, p, found) ==
    IF p > Len(qb) THEN found
    ELSE ScanAll(qb, original_contract, p + 1,
                 IF KeyMatches(qb[p], original_contract) THEN qb[p] ELSE found)

FindQualifiedNoBreak(qb, original_contract) ==
    ScanAll(qb, original_contract, 1, None)

\* The scan of lines 132-140: the first record of the response with the
\* request's key, None when there is none.
FindQualified(qb, original_contract) == ScanFrom(qb, original_contract, 1)

\* Lines 127-149: every request of the batch, in order, gets the record found
\* for it. st = [qc: the dict, asg: the value written per request].
RECURSIVE ProcessFrom(_, _, _, _)
ProcessFrom(st, batch, qb, j) ==
    IF j > Len(batch) THEN st
    ELSE LET idx == batch[j]
             qualified == FindQualified(qb, Contract(idx))
         IN  ProcessFrom([qc  |-> DictSet(st.qc, symbols[idx], qualified),
                          asg |-> [st.asg EXCEPT ![idx] = qualified]],
                         batch, qb, j + 1)

ProcessResults(st, batch, qb) == ProcessFrom(st, batch, qb, 1)

\* Lines 157-161: every request of the batch is written None.
RECURSIVE MarkFrom(_, _, _)
MarkFrom(st, batch, j) ==
    IF j > Len(batch) THEN st
    ELSE MarkFrom([qc  |-> DictSet(st.qc, symbols[batch[j]], None),
                   asg |-> [st.asg EXCEPT ![batch[j]] = None]],
                  batch, j + 1)

\* An except branch that only reports the error.
MarkBatchFailedSkipped(st, batch) == st

\* An except branch that gives up every request up to the end of the batch.
MarkAllFailed(st, batch) ==
    MarkFrom(st, [j \in 1..batch[Len(batch)] |-> j], 1)

MarkBatchFailed(st, batch) == MarkFrom(st, batch, 1)

\* A call of qualify_contracts(syms, batch_size=size): the frame is pushed
\* and the locals are those of a fresh call.
CallQualify(stk, syms, size) ==
    /\ stack' = Append(stk, Frame("qualify_contracts", "enter"))
    /\ symbols' = syms
    /\ batch_size' = size
    /\ i' = 0
    /\ qualified_contracts' = <<>>
    /\ qualified_batch' = <<>>
    /\ calls' = <<>>
    /\ failed' = {}
    /\ assigned' = [idx \in 1..Len(syms) |-> Unset]
    /\ ref' = <<>>
    /\ slept' = {}

\* The locals of qualify_contracts outside a call of it.
NoLocals ==
    /\ symbols' = <<>>
    /\ batch_size' = DefaultBatchSize
    /\ i' = 0
    /\ qualified_contracts' = <<>>
    /\ qualified_batch' = <<>>
    /\ calls' = <<>>
    /\ failed' = {}
    /\ assigned' = <<>>
    /\ ref' = <<>>
    /\ slept' = {}

\* Lines 101-116.
QualifyEnter ==
    /\ At("qualify_contracts", "enter")
    /\ IF NotConnected(connected)
       THEN /\ stack' = Pop
            /\ ret' = Raised("Not connected to IBKR TWS")
            /\ NoLocals
       ELSE /\ stack' = Goto("loop")
            /\ ret' = ret
            /\ UNCHANGED qvars
    /\ UNCHANGED <<driver, connected, op_calls, mvars>>
    /\ UNCHANGED <<svars, tvars, rvars, ivars>>

\* What ib.qualifyContracts may do with a batch: answer or raise.
IbOutcomes == {[resp |-> resp, raises |-> raises] :
                  resp \in Responses, raises \in BOOLEAN}

\* What a deterministic ib.qualifyContracts may do with a batch: raise, or
\* answer with records for AAPL and BRK.
DetOutcomes ==
    {[resp |-> <<>>, raises |-> TRUE]}
    \cup {[resp |-> resp, raises |-> FALSE] :
             resp \in {r \in Responses :
                          \A p \in 1..Len(r) :
                              r[p].currency = "USD" /\ r[p].secType = "STK"}}

\* What a service has answered to a request so far.
Known(answers, request) ==
    {a.outcome : a \in {x \in answers : x.request = request}}

\* A service that may answer a request differently every time.
AnyOutcome(all, det, answers, request) == all

\* What a service may answer to a request: anything in `all`; when the
\* service is deterministic, what it answered to the same request before.
Outcomes(all, det, answers, request) ==
    IF det /\ Known(answers, request) # {} THEN Known(answers, request)
    ELSE all

\* The answers of a deterministic service are kept.
Remember(det, answers, request, outcome) ==
    IF det THEN answers \cup {[request |-> request, outcome |-> outcome]}
    ELSE answers

\* Lines 119-124 and, when the call raises, the except branch of lines
\* 154-161: the next batch is sent. `resp` is what the service answers, or
\* would have answered had the call not raised.
QualifyCall ==
    /\ At("qualify_contracts", "loop")
    /\ i < Len(symbols)
    /\ LET batch == Batch(i, batch_size, Len(symbols))
           request == [p \in 1..Len(batch) |-> Contract(batch[p])]
           all == IF deterministic THEN DetOutcomes ELSE IbOutcomes
       IN \E outcome \in Outcomes(all, deterministic, ib_answers, request) :
         LET resp == outcome.resp
             raises == outcome.raises
             st    == [qc |-> qualified_contracts, asg |-> assigned]
             done  == MarkBatchFailed(st, batch)
         IN  /\ ib_answers' = Remember(deterministic, ib_answers, request, outcome)
             /\ calls' = Append(calls, batch)
             /\ ref' = ProcessResults([qc |-> ref, asg |-> assigned], batch, resp).qc
             /\ IF raises
                THEN /\ failed' = failed \cup {Len(calls) + 1}
                     /\ qualified_contracts' = done.qc
                     /\ assigned' = done.asg
                     /\ i' = NextStart(i, batch_size)
                     /\ UNCHANGED <<stack, qualified_batch, slept>>
                ELSE /\ qualified_batch' = resp
                     /\ stack' = Goto("process")
                     /\ UNCHANGED <<failed, qualified_contracts, assigned, i,
                                    slept>>
    /\ op_calls' = op_calls + 1
    /\ UNCHANGED <<driver, connected, ret, symbols, batch_size, mvars>>
    /\ UNCHANGED <<svars, tvars, rvars, deterministic, search_answers, first_run>>

\* Lines 127-152: the answer is matched to the requests of the batch, then
\* the pause. qualified_batch is not read again before line 124 assigns it.
QualifyProcess ==
    /\ At("qualify_contracts", "process")
    /\ LET batch == Batch(i, batch_size, Len(symbols))
           st    == [qc |-> qualified_contracts, asg |-> assigned]
           done  == ProcessResults(st, batch, qualified_batch)
       IN  /\ qualified_contracts' = done.qc
           /\ assigned' = done.asg
    /\ qualified_batch' = <<>>
    /\ slept' = slept \cup {Len(calls)}
    /\ i' = NextStart(i, batch_size)
    /\ stack' = Goto("loop")
    /\ UNCHANGED <<driver, connected, ret, symbols, batch_size, calls, failed,
                   ref, op_calls, mvars>>
    /\ UNCHANGED <<svars, tvars, rvars, ivars>>

\* A loop that a batch call that raised ends too.
AtReturnOrFailed ==
    At("qualify_contracts", "loop") /\ (i >= Len(symbols) \/ failed # {})

\* The loop of line 119 is over: the state qualify_contracts returns from.
AtReturn == At("qualify_contracts", "loop") /\ i >= Len(symbols)

\* Lines 163-170: the dict is returned, and the locals are gone.
QualifyReturn ==
    /\ AtReturn
    /\ stack' = Pop
    /\ ret' = Value(qualified_contracts)
    /\ NoLocals
    /\ UNCHANGED <<driver, connected, op_calls, mvars>>
    /\ UNCHANGED <<svars, tvars, rvars, ivars>>

\* ---------------------------------------------- add_contracts_to_tws

\* The loop of lines 230-246 from contract p on. st = [count:
\* successful_count, attempted: the contracts ib.reqMktData was called for,
\* by position].
RECURSIVE AddFrom(_, _, _, _)
AddFrom(contracts, raised, p, st) ==
    IF p > Len(contracts) THEN st
    ELSE AddFrom(contracts, raised, p + 1,
                 [count |-> IF p \in raised THEN st.count ELSE st.count + 1,
                  attempted |-> Append(st.attempted, p)])

\* A loop that the first request that raises ends.
AddUntilRaise(contracts, raised) ==
    LET hit  == {p \in 1..Len(contracts) : p \in raised}
        stop == IF hit = {} THEN Len(contracts)
                ELSE CHOOSE m \in hit : \A o \in hit : m <= o
    IN  [count |-> IF hit = {} THEN stop ELSE stop - 1,
         attempted |-> [p \in 1..stop |-> p]]

\* Lines 225-246, where `raised` are the contracts (by position) whose
\* ib.reqMktData raises.
AddContracts(contracts, raised) ==
    AddFrom(contracts, raised, 1, [count |-> 0, attempted |-> <<>>])

\* Lines 225-251: successful_count.
add_contracts_to_tws(contracts, raised) ==
    AddContracts(contracts, raised).count

\* ------------------------------------- create_watchlist_from_symbols

CW == "create_watchlist_from_symbols"

NotNone(x) == x # None

\* Lines 289-293.
ValidContracts(qc) == SelectSeq(DictValues(qc), NotNone)

\* Lines 297-302: the result when nothing was qualified.
FailureResult(syms) ==
    [success |-> FALSE, total_symbols |-> Len(syms),
     successful_contracts |-> <<>>, failed_symbols |-> syms]

\* Lines 325-334: the entry of a qualified contract.
ContractEntry(symbol, contract) ==
    [symbol |-> symbol, contract_symbol |-> contract.symbol,
     exchange |-> IF contract.primaryExchange # ""
                  THEN contract.primaryExchange ELSE contract.exchange,
     currency |-> contract.currency, contract_id |-> contract.conId,
     sec_type |-> contract.secType]

\* Lines 313-336: the result once the contracts were added.
FullResult(syms, qc, added_count) ==
    LET good == SelectSeq(qc, LAMBDA it : it.v # None)
        bad  == SelectSeq(qc, LAMBDA it : it.v = None)
    IN  [success |-> added_count > 0,
         watchlist_name |-> "Apple_Suppliers",
         created_at |-> "time.strftime",
         total_symbols |-> Len(syms),
         successful_contracts |->
             [p \in 1..Len(good) |-> ContractEntry(good[p].k, good[p].v)],
         failed_symbols |-> [p \in 1..Len(bad) |-> bad[p].k],
         tws_import_file |-> "tws_import.csv"]

\* Lines 278-286.
CwEnter ==
    /\ At(CW, "enter")
    /\ IF NotConnected(connected)
       THEN /\ stack' = Pop
            /\ ret' = Raised("Not connected to IBKR TWS")
            /\ cw_symbols' = <<>>
            /\ UNCHANGED qvars
       ELSE /\ CallQualify(Goto("qualified"), cw_symbols, DefaultBatchSize)
            /\ ret' = NoRet
            /\ UNCHANGED cw_symbols
    /\ UNCHANGED <<driver, connected, op_calls, loaded, test_ok>>
    /\ UNCHANGED <<svars, tvars, rvars, ivars>>

\* Lines 288-346, qualify_contracts having returned. ret notes added_count
\* (line 305) with the result.
CwAfterQualify ==
    /\ At(CW, "qualified")
    /\ IF ret.kind = "exc"
       THEN ret' = ret
       ELSE LET valid_contracts == ValidContracts(ret.val)
            IN  IF valid_contracts = <<>>
                THEN ret' = Value(FailureResult(cw_symbols))
                ELSE \E raised \in SUBSET (1..Len(valid_contracts)) :
                       LET added_count ==
                               add_contracts_to_tws(valid_contracts, raised)
                       IN  ret' = [kind |-> "value",
                                   val |-> FullResult(cw_symbols, ret.val,
                                                      added_count),
                                   added_count |-> added_count]
    /\ stack' = Pop
    /\ cw_symbols' = <<>>
    /\ UNCHANGED <<driver, connected, qvars, op_calls, loaded, test_ok>>
    /\ UNCHANGED <<svars, tvars, rvars, ivars>>

\* ----------------------------------------------------- test_connection

\* Lines 450-456: connect if need be, then qualify AAPL.
TcEnter ==
    /\ At("test_connection", "enter")
    /\ \E ok \in BOOLEAN :
         IF ~connected /\ ~ok
         THEN /\ stack' = Pop
              /\ ret' = Value(FALSE)
              /\ UNCHANGED <<connected, qvars>>
         ELSE /\ connected' = TRUE
              /\ CallQualify(Goto("qualified"), <<AAPL>>, DefaultBatchSize)
              /\ ret' = NoRet
    /\ UNCHANGED <<driver, op_calls, mvars>>
    /\ UNCHANGED <<svars, tvars, rvars, ivars>>

\* Lines 458-467.
TcAfterQualify ==
    /\ At("test_connection", "qualified")
    /\ ret' = IF ret.kind = "exc" THEN Value(FALSE)
              ELSE Value(DictHas(ret.val, AAPL) /\ DictGet(ret.val, AAPL) # None)
    /\ stack' = Pop
    /\ UNCHANGED <<driver, connected, qvars, op_calls, mvars>>
    /\ UNCHANGED <<svars, tvars, rvars, ivars>>

\* ------------------------------------------ create_ibkr_watchlist.main

\* Lines 26-46: without a ticker file main returns False; with one, the
\* manager is created and the connection tested.
MainStart ==
    /\ At("main", "start")
    /\ \E found \in BOOLEAN :
         IF found
         THEN /\ stack' = Append(Goto("tested"), Frame("test_connection", "enter"))
              /\ ret' = NoRet
         ELSE /\ stack' = Pop
              /\ ret' = Value(FALSE)
    /\ connected' = FALSE
    /\ UNCHANGED <<driver, qvars, op_calls, mvars>>
    /\ UNCHANGED <<svars, tvars, rvars, ivars>>

\* Lines 46-68: a failed test ends main; else the symbols are loaded and,
\* unless there are none, the watchlist is created. Every return runs the
\* finally clause, which disconnects.
MainAfterTest ==
    /\ At("main", "tested")
    /\ test_ok' = IF ret.val THEN "passed" ELSE "failed"
    /\ IF ~ret.val
       THEN /\ stack' = Pop
            /\ ret' = Value(FALSE)
            /\ connected' = FALSE
            /\ UNCHANGED <<loaded, cw_symbols>>
       ELSE \E f \in TickerFiles :
              LET got == load_symbols_from_file(f)
              IN  /\ loaded' = got.val
                  /\ IF got.val = <<>>
                     THEN /\ stack' = Pop
                          /\ ret' = Value(FALSE)
                          /\ connected' = FALSE
                          /\ UNCHANGED cw_symbols
                     ELSE /\ stack' = Append(Goto("created"), Frame(CW, "enter"))
                          /\ ret' = NoRet
                          /\ cw_symbols' = got.val
                          /\ UNCHANGED connected
    /\ UNCHANGED <<driver, qvars, op_calls>>
    /\ UNCHANGED <<svars, tvars, rvars, ivars>>

\* Lines 70-94.
MainAfterCreate ==
    /\ At("main", "created")
    /\ ret' = IF ret.kind = "exc" THEN Value(FALSE) ELSE Value(ret.val.success)
    /\ stack' = Pop
    /\ connected' = FALSE
    /\ UNCHANGED <<driver, qvars, op_calls, mvars>>
    /\ UNCHANGED <<svars, tvars, rvars, ivars>>

\* ------------------------------------------------------------ the client

\* What load_symbols_from_file gives for each file, with what the file is:
\* there or not, and of which format.
Loads ==
    [f \in Files |->
        LET got == load_symbols_from_file(f)
        IN  [kind |-> got.kind, val |-> got.val,
             file |-> [exists |-> f.exists, suffix |-> f.suffix]]]

Idle == driver = "api" /\ stack = <<>>

\* What a client gets from connect or disconnect, with which of them it
\* called.
Returned(op, val) == [kind |-> "value", val |-> val, op |-> op]

\* connect(): ib.connect either returns or raises (lines 27-41).
ApiConnect ==
    /\ Idle
    /\ \E ok \in BOOLEAN :
         /\ connected' = IF ok THEN TRUE ELSE connected
         /\ ret' = Returned("connect", ok)
    /\ UNCHANGED <<driver, stack, qvars, op_calls, mvars>>
    /\ UNCHANGED <<svars, tvars, rvars, ivars>>

\* disconnect() (lines 43-48).
ApiDisconnect ==
    /\ Idle
    /\ connected' = FALSE
    /\ ret' = Returned("disconnect", None)
    /\ UNCHANGED <<driver, stack, qvars, op_calls, mvars>>
    /\ UNCHANGED <<svars, tvars, rvars, ivars>>

ApiQualify ==
    /\ Idle
    /\ \E syms \in SymbolLists, size \in 1..MaxBatch :
         CallQualify(stack, syms, size)
    /\ ret' = NoRet
    /\ op_calls' = 0
    /\ UNCHANGED <<driver, connected, mvars>>
    /\ UNCHANGED <<svars, tvars, rvars, ivars>>

ApiCreateWatchlist ==
    /\ Idle
    /\ \E syms \in SymbolLists : cw_symbols' = syms
    /\ stack' = <<Frame(CW, "enter")>>
    /\ ret' = NoRet
    /\ op_calls' = 0
    /\ UNCHANGED <<driver, connected, qvars, loaded, test_ok>>
    /\ UNCHANGED <<svars, tvars, rvars, ivars>>

ApiTestConnection ==
    /\ Idle
    /\ stack' = <<Frame("test_connection", "enter")>>
    /\ ret' = NoRet
    /\ op_calls' = 0
    /\ UNCHANGED <<driver, connected, qvars, mvars>>
    /\ UNCHANGED <<svars, tvars, rvars, ivars>>

\* load_symbols_from_file(file_path); ret notes what file it was called on.
ApiLoadSymbols ==
    /\ Idle
    /\ \E f \in Files : ret' = Loads[f]
    /\ UNCHANGED <<driver, connected, stack, qvars, op_calls, mvars>>
    /\ UNCHANGED <<svars, tvars, rvars, ivars>>

\* No call of search_ticker is under way.
NoSearch ==
    /\ supplier = <<>>
    /\ service = <<>>
    /\ search_result = Unset
    /\ queries = <<>>

\* No call of find_tickers is under way.
NoPool ==
    /\ suppliers = <<>>
    /\ max_workers = 0
    /\ t_pc = "idle"
    /\ futures = <<>>
    /\ yielded = {}
    /\ tickers = <<>>
    /\ completed_count = 0
    /\ found_count = 0
    /\ early = {}
    /\ finish_order = <<>>
    /\ drain_order = <<>>
    /\ caller = "none"
    /\ summary = Unset

\* The services answer as they like and no operation is run twice.
NoRerun ==
    /\ deterministic = FALSE
    /\ ib_answers = {}
    /\ search_answers = {}
    /\ first_run = Unset

\* The manager as constructed (lines 21-25), not in use.
NoManager ==
    /\ driver = "none"
    /\ connected = FALSE
    /\ stack = <<>>
    /\ ret = NoRet
    /\ symbols = <<>>
    /\ batch_size = DefaultBatchSize
    /\ i = 0
    /\ qualified_contracts = <<>>
    /\ qualified_batch = <<>>
    /\ calls = <<>>
    /\ failed = {}
    /\ assigned = <<>>
    /\ ref = <<>>
    /\ slept = {}
    /\ op_calls = 0
    /\ cw_symbols = <<>>
    /\ loaded = Unset
    /\ test_ok = "unset"

Init ==
    /\ NoSearch
    /\ NoPool
    /\ NoRerun
    /\ driver \in {"api", "script"}
    /\ connected = FALSE
    /\ stack = IF driver = "script" THEN <<Frame("main", "start")>> ELSE <<>>
    /\ ret = NoRet
    /\ symbols = <<>>
    /\ batch_size = DefaultBatchSize
    /\ i = 0
    /\ qualified_contracts = <<>>
    /\ qualified_batch = <<>>
    /\ calls = <<>>
    /\ failed = {}
    /\ assigned = <<>>
    /\ ref = <<>>
    /\ slept = {}
    /\ op_calls = 0
    /\ cw_symbols = <<>>
    /\ loaded = Unset
    /\ test_ok = "unset"

Next ==
    \/ ApiConnect
    \/ ApiDisconnect
    \/ ApiQualify
    \/ ApiCreateWatchlist
    \/ ApiTestConnection
    \/ ApiLoadSymbols
    \/ CwEnter
    \/ CwAfterQualify
    \/ TcEnter
    \/ TcAfterQualify
    \/ MainStart
    \/ MainAfterTest
    \/ MainAfterCreate
    \/ QualifyEnter
    \/ QualifyCall
    \/ QualifyProcess
    \/ QualifyReturn

Spec == Init /\ [][Next]_vars

\* ------------------------------------------- one call of qualify_contracts

\* A client has called qualify_contracts(symbols, batch_size) on a manager
\* that is connected, or is not.
InitQ ==
    /\ NoSearch
    /\ NoPool
    /\ NoRerun
    /\ driver = "api"
    /\ connected \in BOOLEAN
    /\ stack = <<Frame("qualify_contracts", "enter")>>
    /\ ret = NoRet
    /\ symbols \in SeqsUpTo({AAPL, BRK, BA}, MaxRerun)
    /\ batch_size \in 1..MaxBatch
    /\ i = 0
    /\ qualified_contracts = <<>>
    /\ qualified_batch = <<>>
    /\ calls = <<>>
    /\ failed = {}
    /\ assigned = [idx \in 1..Len(symbols) |-> Unset]
    /\ ref = <<>>
    /\ slept = {}
    /\ op_calls = 0
    /\ cw_symbols = <<>>
    /\ loaded = Unset
    /\ test_ok = "unset"

NextQ ==
    \/ QualifyEnter
    \/ QualifyCall
    \/ QualifyProcess
    \/ QualifyReturn

SpecQ == InitQ /\ [][NextQ]_vars

\* The interpreter goes on with the call, and an external call returns or
\* raises. Every step of the call changes the stack or issues an external
\* call.
FairSpecQ == SpecQ /\ WF_<<stack, op_calls>>(NextQ)

\* ------------------------------------------------- qualify_contracts: claims

\* ceil(n / b)
CeilDiv(n, b) == (n + b - 1) \div b

RECURSIVE Concat(_)
Concat(ss) == IF ss = <<>> THEN <<>> ELSE Head(ss) \o Concat(Tail(ss))

\* The calls of the run that has just ended, and the requests of call w.
Windows == 1..Len(calls)

\* C1: for pairwise-distinct identifiers, whatever the batch size and
\* whichever calls raised, the dict qualify_contracts returns has exactly one
\* key per identifier: N keys, each an input identifier, every input
\* identifier a key.
C1_OneResultPerIdentifier ==
    (AtReturn /\ NoDuplicates(symbols)) =>
        /\ Len(qualified_contracts) = Len(symbols)
        /\ NoDuplicates(DictKeys(qualified_contracts))
        /\ Range(DictKeys(qualified_contracts)) = Range(symbols)

\* A run over three distinct identifiers in three batches, the second of
\* which raised and the first of which resolved its identifier.
C1_Witness ==
    /\ AtReturn
    /\ symbols = <<AAPL, BRK, BA>>
    /\ batch_size = 1
    /\ failed = {2}
    /\ DictGet(qualified_contracts, AAPL) # None

\* C2 (as claimed): when exactly one call raised, after the run every
\* identifier of that batch maps to None and every identifier of every other
\* batch maps to the value it has in the run where no call raises.
C2_FailureContained ==
    (AtReturn /\ Cardinality(failed) = 1) =>
        \A w \in Windows : \A p \in 1..Len(calls[w]) :
            LET symbol == symbols[calls[w][p]]
            IN  DictGet(qualified_contracts, symbol) =
                    IF w \in failed THEN None ELSE DictGet(ref, symbol)

\* C3: ceil(N/B) calls are issued, each batch holds between one and B
\* requests, and the batches, in call order, are the requests 1..N in input
\* order: contiguous, without overlap and without gap.
C3_BatchPartition ==
    AtReturn =>
        /\ Len(calls) = CeilDiv(Len(symbols), batch_size)
        /\ \A w \in Windows : Len(calls[w]) \in 1..batch_size
        /\ Concat(calls) = [idx \in 1..Len(symbols) |-> idx]

\* Three requests in batches of two: a full batch and a rest of one.
C3_Witness ==
    /\ AtReturn
    /\ Len(symbols) = 3
    /\ batch_size = 2
    /\ calls = <<<<1, 2>>, <<3>>>>

\* C4 (as claimed): within one batch no record of the response is the result
\* of two different requests.
C4_NoCandidateTwice ==
    \A w \in Windows : \A p, q \in 1..Len(calls[w]) :
        LET a == assigned[calls[w][p]]
            b == assigned[calls[w][q]]
        IN  (p # q /\ a # Unset /\ a # None) => a # b

\* The records of a response with the composite key of request idx, by
\* position in the response.
Hits(resp, idx) ==
    {q \in 1..Len(resp) :
        /\ resp[q].symbol = symbols[idx]
        /\ resp[q].currency = "USD"
        /\ resp[q].secType = "STK"}

\* C5: when a response is matched, each request of the batch gets the first
\* record of that response, in response order, that has the request's
\* (symbol, currency, securityType), and None when the response holds no such
\* record, wherever the request stands in the batch; the dict holds that
\* value under the request's symbol (for the last request with that symbol).
C5_FirstKeyMatchWins ==
    [][At("qualify_contracts", "process") =>
        LET batch == calls[Len(calls)]
        IN  \A p \in 1..Len(batch) :
              LET hits == Hits(qualified_batch, batch[p])
                  qualified == assigned'[batch[p]]
              IN  /\ hits = {} => qualified = None
                  /\ hits # {} =>
                       /\ qualified \in Range(qualified_batch)
                       /\ \E q \in hits :
                            /\ qualified = qualified_batch[q]
                            /\ \A r \in hits : q <= r
                  /\ (\A r \in (p + 1)..Len(batch) :
                          symbols[batch[r]] # symbols[batch[p]])
                       => DictGet(qualified_contracts', symbols[batch[p]]) = qualified
      ]_vars

\* The response listed two records for AAPL, the second request of the
\* batch, and none for BRK, the first: AAPL got the record listed first.
C5_Witness ==
    /\ At("qualify_contracts", "loop")
    /\ symbols = <<BRK, AAPL>>
    /\ batch_size = 2
    /\ failed = {}
    /\ assigned = <<None, Cand(AAPL, "STK", "USD", 2, "")>>

\* C6: without a session, qualify_contracts and
\* create_watchlist_from_symbols raise to their caller, having issued no
\* call and returning no dict; and when main's connection test fails, main
\* returns False without having loaded or resolved any symbol.
C6_NoSessionIsFatal ==
    /\ [][(~connected /\ (At("qualify_contracts", "enter") \/ At(CW, "enter"))) =>
            /\ ret' = Raised("Not connected to IBKR TWS")
            /\ stack' = Pop
            /\ op_calls' = 0
            /\ calls' = <<>>
            /\ qualified_contracts' = <<>>]_vars
    /\ [](driver = "script" /\ stack = <<>> /\ test_ok = "failed" =>
            /\ ret = Value(FALSE)
            /\ loaded = Unset
            /\ cw_symbols = <<>>
            /\ op_calls <= 1)

\* A client called create_watchlist_from_symbols without a session and got
\* the exception.
C6_Witness ==
    /\ driver = "api"
    /\ stack = <<>>
    /\ ~connected
    /\ ret = Raised("Not connected to IBKR TWS")
    /\ op_calls = 0

(***************************************************************************)
(*   SpecS  one call of AppleSupplierParser.search_ticker of               *)
(*          src/scripts/apple_supplier/parse_apple_suppliers.py, for each  *)
(*          name and each way the search service may answer.               *)
(***************************************************************************)

\* ---------------------------------------------------------- company names

FooCorporation == <<"F", "o", "o", " ", "C", "o", "r", "p", "o", "r", "a", "t", "i", "o", "n">>
LGInc == <<"L", "G", " ", "I", "n", "c">>
Foo == <<"F", "o", "o">>
XLtd == <<"X", " ", "L", "t", "d">>
FooIncBar == <<"F", "o", "o", " ", "I", "n", "c", " ", "B", "a", "r">>
IncName == <<"I", "n", "c">>
EmptyName == <<>>
BlankName == <<" ">>

\* The names looked up: with a corporate suffix, without one, with a short
\* first word, with a suffix in the middle, made of a suffix only, empty and
\* blank. They are written in letters and blanks.
Names == {FooCorporation, LGInc, Foo, XLtd, FooIncBar, IncName, EmptyName,
          BlankName}

\* c.lower(), for the letters of the names.
Lower(c) ==
    CASE c = "B" -> "b" [] c = "C" -> "c" [] c = "E" -> "e" [] c = "F" -> "f" [] c = "G" -> "g" [] c = "H" -> "h" []
         c = "I" -> "i" [] c = "L" -> "l" [] c = "M" -> "m" [] c = "S" -> "s" [] c = "T" -> "t" [] c = "X" -> "x"
      [] OTHER -> c

LowerStr(s) == [p \in 1..Len(s) |-> Lower(s[p])]

\* \w of the regular expression.
IsWordChar(c) == ~IsSpace(c) /\ c \notin {".", "-"}

\* The alternatives of the pattern of line 201, lower case (the pattern is
\* matched with re.IGNORECASE). The alternative "Co\." is left out: between
\* word boundaries it matches only before a letter or digit, and the names
\* hold no ".".
SuffixWords ==
    {<<"c", "o", "r", "p">>,
     <<"c", "o", "r", "p", "o", "r", "a", "t", "i", "o", "n">>,
     <<"i", "n", "c">>,
     <<"i", "n", "c", "o", "r", "p", "o", "r", "a", "t", "e", "d">>,
     <<"l", "t", "d">>,
     <<"l", "i", "m", "i", "t", "e", "d">>,
     <<"c", "o", "m", "p", "a", "n", "y">>,
     <<"l", "l", "c">>,
     <<"g", "r", "o", "u", "p">>,
     <<"h", "o", "l", "d", "i", "n", "g", "s">>,
     <<"t", "e", "c", "h", "n", "o", "l", "o", "g", "i", "e", "s">>,
     <<"t", "e", "c", "h">>,
     <<"s", "y", "s", "t", "e", "m", "s">>,
     <<"s", "o", "l", "u", "t", "i", "o", "n", "s">>,
     <<"i", "n", "d", "u", "s", "t", "r", "i", "e", "s">>,
     <<"m", "a", "n", "u", "f", "a", "c", "t", "u", "r", "i", "n", "g">>,
     <<"e", "l", "e", "c", "t", "r", "o", "n", "i", "c", "s">>,
     <<"s", "e", "m", "i", "c", "o", "n", "d", "u", "c", "t", "o", "r">>}

\* s cut into its maximal runs of word characters and of other characters.
RECURSIVE RunsFrom(_, _)
RunsFrom(s, run) ==
    IF s = <<>> THEN (IF run = <<>> THEN <<>> ELSE <<run>>)
    ELSE IF run = <<>> \/ IsWordChar(Head(s)) = IsWordChar(run[1])
    THEN RunsFrom(Tail(s), Append(run, Head(s)))
    ELSE <<run>> \o RunsFrom(Tail(s), <<Head(s)>>)

Runs(s) == RunsFrom(s, <<>>)

RECURSIVE Join(_)
Join(ss) == IF ss = <<>> THEN <<>> ELSE Head(ss) \o Join(Tail(ss))

\* re.sub(r"\b(Corp|...|Semiconductor)\b", "", s, flags=re.IGNORECASE): a
\* match between two word boundaries is a whole run of word characters.
RemoveSuffixes(s) ==
    LET runs == Runs(s)
    IN  Join([p \in 1..Len(runs) |->
                IF LowerStr(runs[p]) \in SuffixWords THEN <<>> ELSE runs[p]])

\* s.split(): the runs of characters that are not white space.
RECURSIVE SplitFrom(_, _)
SplitFrom(s, word) ==
    IF s = <<>> THEN (IF word = <<>> THEN <<>> ELSE <<word>>)
    ELSE IF IsSpace(Head(s))
    THEN (IF word = <<>> THEN <<>> ELSE <<word>>) \o SplitFrom(Tail(s), <<>>)
    ELSE SplitFrom(Tail(s), Append(word, Head(s)))

Split(s) == SplitFrom(s, <<>>)

\* ------------------------------------------------------ the search service

Quote(symbol, quoteType) == [symbol |-> symbol, quoteType |-> quoteType]

\* The key "quoteType" is not in the quote.
NoType == "(absent)"

\* quoteType.upper()
Upper(t) == IF t = "equity" THEN "EQUITY" ELSE t

Answer(quotes) == [raises |-> FALSE, quotes |-> quotes]

\* What search(term) may do: raise; answer without quotes; or answer quotes,
\* the first of which is an equity, an equity in lower case, a fund, a quote
\* without type, or a quote without symbol.
SearchResponses ==
    {[raises |-> TRUE, quotes |-> <<>>],
     Answer(<<>>),
     Answer(<<Quote("FOO", "EQUITY")>>),
     Answer(<<Quote("LGE", "equity"), Quote("FOO", "EQUITY")>>),
     Answer(<<Quote("SPY", "ETF"), Quote("FOO", "EQUITY")>>),
     Answer(<<Quote("BAR", NoType)>>),
     Answer(<<Quote("", "EQUITY"), Quote("FOO", "EQUITY")>>)}

\* The most terms a chain holds: the name, the cleaned name, the first word.
ChainLength == 3

\* What the service does at the first, second and third query of one call.
Oracles == [1..ChainLength -> SearchResponses]

\* ------------------------------------------------------------ search_ticker

Str(s) == [str |-> s]

\* Lines 194-212: the search terms of a name.
SearchTerms(company_name) ==
    LET clean_name == Strip(RemoveSuffixes(company_name))
        first_word == Split(company_name)[1]
    IN  <<company_name>>
        \o (IF clean_name # <<>> /\ clean_name # company_name
            THEN <<clean_name>> ELSE <<>>)
        \o (IF Len(first_word) > 2 THEN <<first_word>> ELSE <<>>)

\* The acceptance of lines 222-231 without the test of the symbol.
AcceptsAnySymbol(response) ==
    /\ Len(response.quotes) > 0
    /\ LET quote == response.quotes[1]
       IN  \/ (quote.quoteType # NoType /\ Upper(quote.quoteType) = "EQUITY")
           \/ quote.quoteType = NoType

\* Lines 222-231: whether the answer is taken, which looks at its first
\* quote only.
Accepts(response) ==
    /\ Len(response.quotes) > 0
    /\ LET quote == response.quotes[1]
       IN  /\ quote.symbol # ""
           /\ \/ (quote.quoteType # NoType /\ Upper(quote.quoteType) = "EQUITY")
              \/ quote.quoteType = NoType

\* A handler that leaves the loop instead of continuing it.
AfterRaiseLeavesLoop(terms, p) == Len(terms) + 1

\* except Exception ... continue (lines 233-235): the term after a query
\* that raised.
AfterRaise(terms, p) == p + 1

\* The loop of lines 214-235 from term p on. log holds the queries made so
\* far, each with the answer it got; oracle[n] is the answer to query n.
RECURSIVE RunChain(_, _, _, _)
RunChain(terms, p, oracle, log) ==
    IF p > Len(terms) THEN [result |-> None, log |-> log]
    ELSE IF Len(terms[p]) < 2 THEN RunChain(terms, p + 1, oracle, log)
    ELSE LET response == oracle[Len(log) + 1]
             logged == Append(log, [term |-> terms[p], response |-> response])
         IN  IF response.raises
             THEN RunChain(terms, AfterRaise(terms, p), oracle, logged)
             ELSE IF Accepts(response)
             THEN [result |-> Str(response.quotes[1].symbol), log |-> logged]
             ELSE RunChain(terms, p + 1, oracle, logged)

\* search_ticker (lines 190-241). A name without a word makes split()[0]
\* raise IndexError, which the outer handler turns into None.
search_ticker(company_name, oracle) ==
    IF Split(company_name) = <<>> THEN [result |-> None, log |-> <<>>]
    ELSE RunChain(SearchTerms(company_name), 1, oracle, <<>>)

\* One call of search_ticker, from the call to its return.
SearchTicker ==
    /\ search_result = Unset
    /\ supplier \in Names
    /\ LET returned == search_ticker(supplier, service)
       IN  /\ search_result' = returned.result
           /\ queries' = returned.log
    /\ UNCHANGED <<supplier, service>>
    /\ UNCHANGED <<manager_vars, tvars, rvars, ivars>>

InitS ==
    /\ NoManager
    /\ NoPool
    /\ NoRerun
    /\ supplier \in Names
    /\ service \in Oracles
    /\ search_result = Unset
    /\ queries = <<>>

NextS == SearchTicker

SpecS == InitS /\ [][NextS]_vars

\* ------------------------------------------------------------ find_tickers

\* The names find_tickers is run on.
PoolNames == {FooCorporation, XLtd, EmptyName}

Future(state, raised, result) ==
    [state |-> state, raised |-> raised, result |-> result]

Indexes(state) == {idx \in 1..Len(futures) : futures[idx].state = state}

\* What search_ticker may return for each name, over all the service may
\* do.
Tickers ==
    [name \in PoolNames |->
        {search_ticker(name, answers).result : answers \in Oracles}]

\* A store that keeps found tickers only.
StoreFound(d, name, ticker) ==
    IF ticker # None THEN DictSet(d, name, ticker) ELSE d

\* Lines 284-289: the ticker of a name, or None, goes into the dict.
Store(d, name, ticker) ==
    IF ticker # None THEN DictSet(d, name, ticker) ELSE DictSet(d, name, None)

\* A count of the tasks that returned, with a ticker or without.
FoundAlways(count, ticker) == count + 1

\* Lines 284-286: found_count after a task that returned ticker.
Found(count, ticker) == IF ticker # None THEN count + 1 ELSE count

\* executor.submit (lines 266-269): the next item, in list order.
Submit ==
    /\ t_pc = "submit"
    /\ Len(futures) < Len(suppliers)
    /\ futures' = Append(futures, Future("pending", FALSE, Unset))
    /\ UNCHANGED <<suppliers, max_workers, t_pc, yielded, tickers,
                   completed_count, found_count, early, finish_order,
                   drain_order>>
    /\ UNCHANGED <<manager_vars, svars, rvars, ivars>>

\* Lines 271-280: every item is submitted, the calling thread starts to
\* wait for completed futures; as_completed notes the futures that are
\* done already.
BeginDrain ==
    /\ t_pc = "submit"
    /\ Len(futures) = Len(suppliers)
    /\ t_pc' = "drain"
    /\ completed_count' = 0
    /\ found_count' = 0
    /\ early' = Indexes("done")
    /\ UNCHANGED <<suppliers, max_workers, futures, yielded, tickers,
                   finish_order, drain_order>>
    /\ UNCHANGED <<manager_vars, svars, rvars, ivars>>

\* A worker thread takes the oldest queued task; the executor has at most
\* max_workers threads (line 264). The task sleeps (line 248).
TaskStart ==
    /\ Cardinality(Indexes("running")) < max_workers
    /\ Indexes("pending") # {}
    /\ LET idx == CHOOSE first \in Indexes("pending") :
                      \A other \in Indexes("pending") : first <= other
       IN  futures' = [futures EXCEPT ![idx].state = "running"]
    /\ UNCHANGED <<suppliers, max_workers, t_pc, yielded, tickers,
                   completed_count, found_count, early, finish_order,
                   drain_order>>
    /\ UNCHANGED <<manager_vars, svars, rvars, ivars>>

\* A worker that stores its ticker in the dict itself.
WorkerStores(d, name, ticker) == Store(d, name, ticker)

\* What a worker does to the dict of find_tickers: nothing, the pair
\* (supplier, ticker) is returned through the future (lines 250-252).
WorkerWrites(d, name, ticker) == d

\* search_ticker_with_progress returns (lines 250-252): search_ticker
\* handles every exception, so the future holds a result.
TaskFinish ==
    /\ \E idx \in Indexes("running") :
          \E ticker \in Outcomes(Tickers[suppliers[idx]], deterministic,
                                  search_answers, suppliers[idx]) :
              /\ futures' = [futures EXCEPT
                                 ![idx] = Future("done", FALSE, ticker)]
              /\ finish_order' = Append(finish_order, idx)
              /\ search_answers' = Remember(deterministic, search_answers,
                                            suppliers[idx], ticker)
              /\ tickers' = WorkerWrites(tickers, suppliers[idx], ticker)
    /\ UNCHANGED <<suppliers, max_workers, t_pc, yielded,
                   completed_count, found_count, early, drain_order>>
    /\ UNCHANGED <<manager_vars, svars, rvars, deterministic, ib_answers, first_run>>

\* An as_completed that yields any future that is done.
AsCompletedAnyDone(first, order, out) == Range(order) \ out

\* as_completed(future_to_supplier) (line 280): the futures it may yield
\* next. Those that were done when it started (first) come first, in the
\* iteration order of a set, which is any order; the others follow in the
\* order they completed (order). out are the futures yielded so far.
AsCompleted(first, order, out) ==
    IF first \ out # {} THEN first \ out
    ELSE LET later == SelectSeq(order, LAMBDA idx : idx \notin out)
         IN  IF later = <<>> THEN {} ELSE {later[1]}

\* One round of the loop over as_completed (lines 280-303), which yields
\* each future once.
Drain ==
    /\ t_pc = "drain"
    /\ \E idx \in AsCompleted(early, finish_order, yielded) :
          LET name == suppliers[idx]
              ticker == futures[idx].result
          IN  /\ yielded' = yielded \cup {idx}
              /\ drain_order' = Append(drain_order, idx)
              /\ completed_count' = completed_count + 1
              /\ IF futures[idx].raised
                 THEN /\ tickers' = DictSet(tickers, name, None)
                      /\ UNCHANGED found_count
                 ELSE /\ tickers' = Store(tickers, name, ticker)
                      /\ found_count' = Found(found_count, ticker)
    /\ UNCHANGED <<suppliers, max_workers, t_pc, futures, early,
                   finish_order>>
    /\ UNCHANGED <<manager_vars, svars, rvars, ivars>>

\* as_completed is exhausted, the executor shuts down, find_tickers
\* returns tickers (line 305).
Return ==
    /\ t_pc = "drain"
    /\ yielded = 1..Len(suppliers)
    /\ t_pc' = "done"
    /\ UNCHANGED <<suppliers, max_workers, futures, yielded, tickers,
                   completed_count, found_count, early, finish_order,
                   drain_order>>
    /\ UNCHANGED <<manager_vars, svars, rvars, ivars>>

InitT ==
    /\ NoManager
    /\ NoSearch
    /\ NoRerun
    /\ suppliers \in SeqsUpTo(PoolNames, MaxNames)
    /\ max_workers \in 1..MaxWorkers
    /\ t_pc = "submit"
    /\ futures = <<>>
    /\ yielded = {}
    /\ tickers = <<>>
    /\ completed_count = 0
    /\ found_count = 0
    /\ early = {}
    /\ finish_order = <<>>
    /\ drain_order = <<>>
    /\ caller = "client"
    /\ summary = Unset

NextT ==
    \/ Submit
    \/ BeginDrain
    \/ TaskStart
    \/ TaskFinish
    \/ Drain
    \/ Return

SpecT == InitT /\ [][NextT]_vars

\* The threads of the pool and the calling thread keep running, and every
\* query to the service returns or raises.
FairSpecT == SpecT /\ WF_vars(NextT)

\* ------------------------------------------------ AppleSupplierParser.run

\* A guard that lets an empty list through.
NoSuppliersNever(found) == FALSE

\* if not self.suppliers (line 363).
NoSuppliers(found) == found = <<>>

\* f"{found_tickers / len(self.suppliers) * 100:.1f}" (line 378), in tenths
\* of a percent, rounded to the nearest tenth, a tie to the even one.
SuccessRate(found_tickers, total) ==
    LET q == (found_tickers * 1000) \div total
        r == (found_tickers * 1000) % total
    IN  IF 2 * r > total \/ (2 * r = total /\ q % 2 = 1) THEN q + 1 ELSE q

\* What run returns, and the rate it prints, if any.
Summary(returned, rate) == [returned |-> returned, rate |-> rate]

\* Lines 362-365: the suppliers are what download_and_parse_pdf returned;
\* without suppliers run returns False.
RunStart ==
    /\ t_pc = "run"
    /\ IF NoSuppliers(suppliers)
       THEN /\ t_pc' = "exit"
            /\ summary' = Value(Summary(FALSE, <<>>))
       ELSE /\ t_pc' = "submit"
            /\ UNCHANGED summary
    /\ UNCHANGED <<suppliers, max_workers, futures, yielded, tickers,
                   completed_count, found_count, early, finish_order,
                   drain_order, caller>>
    /\ UNCHANGED <<manager_vars, svars, ivars>>

\* Lines 368-380: find_tickers has returned, the results are saved and the
\* summary is printed; the division of line 378 raises when there is no
\* supplier.
RunFinish ==
    /\ t_pc = "done"
    /\ caller = "run"
    /\ t_pc' = "exit"
    /\ LET found_tickers == Len(SelectSeq(DictValues(tickers), NotNone))
       IN  summary' =
               IF Len(suppliers) = 0 THEN Raised("ZeroDivisionError")
               ELSE Value(Summary(TRUE,
                          <<SuccessRate(found_tickers, Len(suppliers))>>))
    /\ UNCHANGED <<suppliers, max_workers, futures, yielded, tickers,
                   completed_count, found_count, early, finish_order,
                   drain_order, caller>>
    /\ UNCHANGED <<manager_vars, svars, ivars>>

\* Either the manager is used, by a client or by the watchlist script, or
\* the parser is: find_tickers is called by a client or by run.
InitAll ==
    \/ Init
    \/ /\ NoManager
       /\ NoSearch
       /\ NoRerun
       /\ suppliers \in SeqsUpTo(PoolNames, MaxNames)
       /\ max_workers \in 1..MaxWorkers
       /\ caller \in {"client", "run"}
       /\ t_pc = IF caller = "run" THEN "run" ELSE "submit"
       /\ futures = <<>>
       /\ yielded = {}
       /\ tickers = <<>>
       /\ completed_count = 0
       /\ found_count = 0
       /\ early = {}
       /\ finish_order = <<>>
       /\ drain_order = <<>>
       /\ summary = Unset

NextAll ==
    \/ Next
    \/ NextT
    \/ RunStart
    \/ RunFinish

SpecAll == InitAll /\ [][NextAll]_vars

\* ------------------------------------------- running an operation twice

Run(syms, size, runs, result) ==
    [symbols |-> syms, batch_size |-> size, runs |-> runs, result |-> result]

\* qualify_contracts(symbols, batch_size=...) is called for the first time.
FirstQualify ==
    /\ driver = "twice"
    /\ stack = <<>>
    /\ first_run = Unset
    /\ \E syms \in SeqsUpTo({AAPL, BRK, BA}, MaxRerun), size \in 1..MaxBatch :
         /\ CallQualify(stack, syms, size)
         /\ first_run' = Run(syms, size, 1, NoRet)
    /\ ret' = NoRet
    /\ op_calls' = 0
    /\ UNCHANGED <<driver, connected, mvars>>
    /\ UNCHANGED <<svars, tvars, rvars, deterministic, ib_answers, search_answers>>

\* The first call is over; the same call is made again.
SecondQualify ==
    /\ driver = "twice"
    /\ stack = <<>>
    /\ first_run # Unset
    /\ first_run.runs = 1
    /\ CallQualify(stack, first_run.symbols, first_run.batch_size)
    /\ first_run' = Run(first_run.symbols, first_run.batch_size, 2, ret)
    /\ ret' = NoRet
    /\ op_calls' = 0
    /\ UNCHANGED <<driver, connected, mvars>>
    /\ UNCHANGED <<svars, tvars, rvars, deterministic, ib_answers, search_answers>>

\* find_tickers has returned; it is called again on the same suppliers
\* with the same max_workers (lines 256-260).
SecondFindTickers ==
    /\ t_pc = "done"
    /\ deterministic
    /\ first_run = Unset
    /\ first_run' = Run(suppliers, max_workers, 2, Value(tickers))
    /\ t_pc' = "submit"
    /\ futures' = <<>>
    /\ yielded' = {}
    /\ tickers' = <<>>
    /\ completed_count' = 0
    /\ found_count' = 0
    /\ early' = {}
    /\ finish_order' = <<>>
    /\ drain_order' = <<>>
    /\ UNCHANGED <<suppliers, max_workers>>
    /\ UNCHANGED <<manager_vars, svars, rvars, deterministic, ib_answers,
                   search_answers>>

\* Either the manager, connected or not, is about to qualify twice, or
\* find_tickers is about to run twice.
InitI ==
    /\ NoSearch
    /\ deterministic = TRUE
    /\ ib_answers = {}
    /\ search_answers = {}
    /\ first_run = Unset
    /\ \/ /\ NoPool
          /\ driver = "twice"
          /\ connected \in BOOLEAN
          /\ stack = <<>>
          /\ ret = NoRet
          /\ symbols = <<>>
          /\ batch_size = DefaultBatchSize
          /\ i = 0
          /\ qualified_contracts = <<>>
          /\ qualified_batch = <<>>
          /\ calls = <<>>
          /\ failed = {}
          /\ assigned = <<>>
          /\ ref = <<>>
          /\ slept = {}
          /\ op_calls = 0
          /\ cw_symbols = <<>>
          /\ loaded = Unset
          /\ test_ok = "unset"
       \/ /\ NoManager
          /\ suppliers \in SeqsUpTo(PoolNames, MaxNames)
          /\ max_workers \in 1..MaxWorkers
          /\ t_pc = "submit"
          /\ futures = <<>>
          /\ yielded = {}
          /\ tickers = <<>>
          /\ completed_count = 0
          /\ found_count = 0
          /\ early = {}
          /\ finish_order = <<>>
          /\ drain_order = <<>>
          /\ caller = "client"
          /\ summary = Unset

NextI ==
    \/ FirstQualify
    \/ SecondQualify
    \/ QualifyEnter
    \/ QualifyCall
    \/ QualifyProcess
    \/ QualifyReturn
    \/ Submit
    \/ BeginDrain
    \/ TaskStart
    \/ TaskFinish
    \/ Drain
    \/ Return
    \/ SecondFindTickers

SpecI == InitI /\ [][NextI]_vars

\* ------------------------------------------------ claims on running twice

\* Whether two calls ended the same way: both raised the same exception, or
\* both returned and the dicts are equal as Python dicts are, whatever the
\* order of their items.
SameOutcome(a, b) ==
    /\ a.kind = b.kind
    /\ IF a.kind = "value" THEN Range(a.val) = Range(b.val) ELSE a = b

C12_PoolWitness ==
    /\ t_pc = "done"
    /\ first_run # Unset
    /\ max_workers = 2
    /\ suppliers = <<XLtd, FooCorporation>>
    /\ first_run.result.val # tickers
    /\ DictGet(tickers, FooCorporation) = Str("FOO")

\* -------------------------------------------------- claims on find_tickers

\* C7: for pairwise distinct names, any number of workers, any order of
\* completion and any queries that raise, find_tickers returns, and then
\* every task was processed once: completed_count is the number of names
\* and the dict has one key for each name and no other.
C7_EveryTaskOnce ==
    /\ <>(t_pc = "done")
    /\ [](t_pc = "done" /\ NoDuplicates(suppliers) =>
              /\ yielded = 1..Len(suppliers)
              /\ completed_count = Len(suppliers)
              /\ Len(tickers) = Len(suppliers)
              /\ Range(DictKeys(tickers)) = Range(suppliers))

\* Two names with two workers: the second task was drained first and gave
\* a ticker, the first gave none.
C7_Witness ==
    /\ t_pc = "done"
    /\ max_workers = 2
    /\ suppliers = <<XLtd, FooCorporation>>
    /\ tickers = <<[k |-> FooCorporation, v |-> Str("FOO")],
                   [k |-> XLtd, v |-> None]>>
    /\ completed_count = 2

\* The place of future idx in a sequence of futures that holds it.
Pos(order, idx) == CHOOSE p \in 1..Len(order) : order[p] = idx

\* Never more tasks run than there are workers, and nothing is drained
\* before every item is submitted.
PoolBounded ==
    /\ Cardinality(Indexes("running")) <= max_workers
    /\ yielded # {} => Len(futures) = Len(suppliers)

\* C11, as stated: at most max_workers tasks run at a time, every task is
\* submitted before the first result is drained, and the results are
\* drained in the order the tasks completed.
C11_DrainedInCompletionOrder ==
    /\ PoolBounded
    /\ \A p, q \in 1..Len(drain_order) :
          p < q => Pos(finish_order, drain_order[p])
                       < Pos(finish_order, drain_order[q])

\* C11, amended: at most max_workers tasks run at a time, every task is
\* submitted before the first result is drained, only completed tasks are
\* drained, the tasks that completed before draining began are drained
\* first, in any order, and the other tasks are drained in the order they
\* completed.
C11_DrainedAsCompleted ==
    /\ PoolBounded
    /\ Range(drain_order) \subseteq Indexes("done")
    /\ \A p, q \in 1..Len(drain_order) :
          p < q =>
              /\ drain_order[q] \in early => drain_order[p] \in early
              /\ drain_order[p] \notin early /\ drain_order[q] \notin early
                    => Pos(finish_order, drain_order[p])
                           < Pos(finish_order, drain_order[q])

\* Two workers: the second task completed first, after draining began, and
\* was drained first.
C11_Witness ==
    /\ t_pc = "done"
    /\ max_workers = 2
    /\ early = {}
    /\ finish_order = <<2, 1>>
    /\ drain_order = <<2, 1>>

\* A step of a worker thread: a future that exists changes.
WorkerStep == Len(futures') = Len(futures) /\ futures' # futures

\* What the calling thread and the progress bar share with nobody.
Aggregate == <<tickers, completed_count, found_count>>

\* C21: the result dict and the two counts of find_tickers are written by
\* the calling thread alone, in BeginDrain and in the rounds of its loop over
\* as_completed, and never in a step of a worker; and a task that is running
\* can finish whatever the calling thread and its progress bar are doing.
C21_WritesSerialized ==
    /\ [][WorkerStep => UNCHANGED Aggregate]_vars
    /\ [][Aggregate' # Aggregate =>
             /\ t_pc \in {"submit", "drain"}
             /\ UNCHANGED futures]_vars
    /\ [](Indexes("running") # {} => ENABLED TaskFinish)

\* A worker is running a task while the calling thread has stored the
\* result of another.
C21_Witness ==
    /\ t_pc = "drain"
    /\ completed_count = 1
    /\ Len(tickers) = 1
    /\ Indexes("running") # {}

\* The items of the dict d that hold a ticker.
NonNull(d) == {p \in 1..Len(d) : d[p].v # None}

\* C23: in the loop over as_completed and after it, 0 <= found_count <=
\* completed_count <= N, completed_count is the number of futures processed
\* so far, and for pairwise distinct names found_count is the number of
\* tickers in the dict.
C23_Counters ==
    t_pc \in {"drain", "done"} =>
        /\ 0 <= found_count
        /\ found_count <= completed_count
        /\ completed_count <= Len(suppliers)
        /\ completed_count = Cardinality(yielded)
        /\ completed_count = Len(drain_order)
        /\ NoDuplicates(suppliers) =>
               found_count = Cardinality(NonNull(tickers))

\* Both of two tasks are processed, one with a ticker and one without, and
\* the loop has not ended.
C23_Witness ==
    /\ t_pc = "drain"
    /\ NoDuplicates(suppliers)
    /\ completed_count = 2
    /\ found_count = 1
    /\ Cardinality(NonNull(tickers)) = 1

\* -------------------------------------------------- claims on empty input

\* qualify_contracts and find_tickers return an empty dict for an empty
\* list, without a call to the service and without a task.
EmptyMapping ==
    /\ (AtReturn /\ symbols = <<>>)
          => qualified_contracts = <<>> /\ calls = <<>>
    /\ (t_pc \in {"done", "exit"} /\ suppliers = <<>>)
          => tickers = <<>> /\ futures = <<>> /\ finish_order = <<>>

ScriptEndedEmpty ==
    /\ driver = "script"
    /\ stack = <<>>
    /\ test_ok = "passed"
    /\ loaded = <<>>

\* C13, as stated: for an empty input the result is empty, the success rate
\* is 0, no division fails and no call to a service was made.
C13_EmptyRateZero ==
    /\ EmptyMapping
    /\ (t_pc = "exit" /\ suppliers = <<>>)
          => summary.kind = "value" /\ summary.val.rate = <<0>>
    /\ ScriptEndedEmpty => op_calls = 0

\* C13, amended: for an empty input the result is empty and neither a call
\* for the identifiers nor a search is made; run returns False without
\* computing a success rate, so that no division fails; the watchlist
\* script returns False having made one call only, that of its connection
\* test, before it loaded the symbols.
C13_EmptyInput ==
    /\ EmptyMapping
    /\ (t_pc = "exit" /\ suppliers = <<>>)
          => summary = Value(Summary(FALSE, <<>>))
    /\ t_pc = "exit" => summary.kind = "value"
    /\ ScriptEndedEmpty
          => ret = Value(FALSE) /\ cw_symbols = <<>> /\ op_calls = 1

\* run found no supplier and returned False.
C13_Witness ==
    /\ caller = "run"
    /\ t_pc = "exit"
    /\ suppliers = <<>>
    /\ summary = Value(Summary(FALSE, <<>>))

\* The script ended on a file without symbols.
C13_ScriptWitness == ScriptEndedEmpty /\ ret = Value(FALSE)

\* qualify_contracts is about to return from a call with no symbol.
C13_QualifyWitness ==
    AtReturn /\ symbols = <<>> /\ connected /\ qualified_contracts = <<>>

\* ------------------------------------------ claims on load_symbols_from_file

\* The script has loaded its symbols.
Loaded == driver = "script" /\ test_ok = "passed"

Ascending(list) ==
    \A p \in 1..(Len(list) - 1) : StrLess(list[p], list[p + 1])

\* C14: the list load_symbols_from_file returns has no symbol twice and is
\* in ascending order.
C14_LoadedSortedUnique ==
    Loaded => NoDuplicates(loaded) /\ Ascending(loaded)

\* C15: every symbol load_symbols_from_file returns is not empty, has no
\* blank at either end and holds no "."; a file without entries gives the
\* empty list.
C15_LoadedClean ==
    Loaded =>
        \A p \in 1..Len(loaded) :
            /\ loaded[p] # <<>>
            /\ Strip(loaded[p]) = loaded[p]
            /\ "." \notin Range(loaded[p])

\* ---------------------------------- claims on create_watchlist_from_symbols

\* create_watchlist_from_symbols is about to return a result: ret holds the
\* dict qualify_contracts returned, and the step puts the result in ret.
CwReturnsResult == At(CW, "qualified") /\ ret.kind = "value"

Resolved(result) ==
    [p \in 1..Len(result.successful_contracts) |->
        result.successful_contracts[p].symbol]

\* The first place of a symbol in a list that holds it.
FirstPos(list, x) ==
    CHOOSE p \in 1..Len(list) :
        list[p] = x /\ \A q \in 1..(p - 1) : list[q] # x

\* The aggregation C16 states, of mapping into result for the input syms.
Aggregated(syms, mapping, result) ==
    LET resolved == Resolved(result)
        unresolved == result.failed_symbols
    IN  /\ \A p \in 1..Len(mapping) :
              /\ mapping[p].k \in Range(resolved) <=> mapping[p].v # None
              /\ mapping[p].k \in Range(unresolved) <=> mapping[p].v = None
        /\ NoDuplicates(resolved)
        /\ NoDuplicates(unresolved)
        /\ \A p, q \in 1..Len(resolved) :
              p < q => FirstPos(syms, resolved[p]) < FirstPos(syms, resolved[q])
        /\ result.total_symbols = Len(resolved) + Len(unresolved)

\* C16: every symbol of the dict is in the resolved list when its contract
\* is not None and in the unresolved list when it is, once and in one list
\* only; the resolved list is in input order; total_symbols is the length
\* of the two lists together.
C16_Partition ==
    [][CwReturnsResult => Aggregated(cw_symbols, ret.val, ret'.val)]_vars

\* C17: every result create_watchlist_from_symbols returns has the keys
\* success, total_symbols, successful_contracts, failed_symbols and
\* created_at.
C17_ResultKeys ==
    [][CwReturnsResult =>
          {"success", "total_symbols", "successful_contracts",
           "failed_symbols", "created_at"} \subseteq DOMAIN ret'.val]_vars

\* ------------------------------------------------- claims on pacing

\* The running qualify_contracts has made its call number k.
Called(k) == k \in 1..Len(calls)

\* C19: in qualify_contracts every batch call that is followed by another
\* batch call, a call that raised included, was followed by the pause of
\* line 152 first.
C19_PauseBetweenCalls ==
    \A k \in 1..MaxSymbols : Called(k + 1) => k \in slept

\* ------------------------------------------------- claims on completion

\* qualify_contracts is the running call.
InQualify == stack # <<>> /\ Top.fn = "qualify_contracts"

\* The batches of n requests in windows of b, in window order.
AllWindows(n, b) ==
    [w \in 1..CeilDiv(n, b) |-> Batch((w - 1) * b, b, n)]

\* C20: a qualify_contracts that started on a connected session issues the
\* calls of its windows in window order, each once, whether or not earlier
\* calls raised; when it ends, every window has been called and it returns
\* a value, no exception; and it ends.
C20_RunsToCompletion ==
    /\ [](InQualify =>
            /\ Len(calls) <= CeilDiv(Len(symbols), batch_size)
            /\ calls = SubSeq(AllWindows(Len(symbols), batch_size),
                              1, Len(calls)))
    /\ [][InQualify /\ connected /\ Len(stack') < Len(stack) =>
            /\ calls = AllWindows(Len(symbols), batch_size)
            /\ ret'.kind = "value"]_vars
    /\ (At("qualify_contracts", "enter") /\ connected)
           ~> (stack = <<>> /\ ret.kind = "value")

\* The first of two calls raised, the second was issued, and the loop is
\* over.
C20_Witness ==
    /\ InQualify
    /\ connected
    /\ Top.pc = "loop"
    /\ i >= Len(symbols)
    /\ Len(calls) = 2
    /\ 1 \in failed

\* ------------------------------------------------- claims on the result dict

\* Every item of the dict d is an item of e, at the same place.
Kept(d, e) == Len(d) <= Len(e) /\ \A p \in 1..Len(d) : e[p] = d[p]

\* C22: in a run of qualify_contracts on pairwise distinct symbols no item
\* of the result dict changes once it is written, whichever calls raise;
\* and when the loop is over every symbol has its item, a contract of the
\* answer to its batch or None.
C22_WrittenOnce ==
    /\ [][(InQualify /\ NoDuplicates(symbols) /\ Len(stack') = Len(stack))
             => Kept(qualified_contracts, qualified_contracts')]_vars
    /\ [](AtReturn /\ NoDuplicates(symbols) =>
            \A idx \in 1..Len(symbols) :
                /\ DictHas(qualified_contracts, symbols[idx])
                /\ DictGet(qualified_contracts, symbols[idx]) = assigned[idx]
                /\ assigned[idx] \in Candidates \cup {None})

\* The first of two calls raised, the second resolved its symbol: the item
\* of the first symbol is None, as it was written.
C22_Witness ==
    /\ AtReturn
    /\ symbols = <<AAPL, BRK>>
    /\ batch_size = 1
    /\ failed = {1}
    /\ DictGet(qualified_contracts, AAPL) = None
    /\ DictGet(qualified_contracts, BRK) # None

\* ------------------------------------------------- claims on adding contracts

\* create_watchlist_from_symbols has called add_contracts_to_tws and
\* returned to a client.
AddedFor(r) == "added_count" \in DOMAIN r

\* C25: whichever requests raise, add_contracts_to_tws calls ib.reqMktData
\* for every contract once, in list order, and returns the number of
\* contracts whose request did not raise, between 0 and their number;
\* create_watchlist_from_symbols reports success exactly when that number is
\* above 0, and then the list of resolved contracts is not empty.
C25_EveryContractAttempted ==
    /\ [](CwReturnsResult =>
            LET valid == ValidContracts(ret.val)
            IN  \A raised \in SUBSET (1..Len(valid)) :
                  LET got == AddContracts(valid, raised)
                  IN  /\ got.attempted = [p \in 1..Len(valid) |-> p]
                      /\ got.count = Len(valid) - Cardinality(raised)
                      /\ got.count \in 0..Len(valid)
                      /\ add_contracts_to_tws(valid, raised) = got.count)
    /\ [][CwReturnsResult =>
             IF AddedFor(ret')
             THEN /\ ret'.val.success = (ret'.added_count > 0)
                  /\ ret'.added_count
                         \in 0..Len(ret'.val.successful_contracts)
                  /\ ret'.val.successful_contracts # <<>>
             ELSE /\ ~ret'.val.success
                  /\ ValidContracts(ret.val) = <<>>]_vars

\* Two contracts were resolved and the request of one of them raised: one
\* was added, which is success.
C25_Witness ==
    /\ driver = "api"
    /\ stack = <<>>
    /\ AddedFor(ret)
    /\ ret.added_count = 1
    /\ Len(ret.val.successful_contracts) = 2
    /\ ret.val.success

\* ------------------------------------------------- claims on the session

\* A client has called op, connect or disconnect, and it has returned.
ClientCalled(op) ==
    driver = "api" /\ stack = <<>> /\ "op" \in DOMAIN ret /\ ret.op = op

\* main has ended after it created the manager.
MainEnded == driver = "script" /\ stack = <<>> /\ test_ok # "unset"

\* The flag is set by a connect that succeeds, in connect or in
\* test_connection, and by nothing else; a disconnect clears it, and on a
\* manager without a session changes nothing; main ends without a session.
FlagFollowsSession ==
    /\ [][~connected /\ connected' =>
             \/ Idle /\ ClientCalled("connect")' /\ ret'.val
             \/ At("test_connection", "enter")]_vars
    /\ [](ClientCalled("connect") /\ ret.val => connected)
    /\ [](ClientCalled("disconnect") => ~connected)
    /\ [][Idle /\ ~connected /\ ClientCalled("disconnect")' =>
             UNCHANGED <<driver, connected, stack, qvars, op_calls, mvars>>]_vars
    /\ [](MainEnded => ~connected)

\* C24: the flag follows the session as above, and is false after a connect
\* that failed.
C24_SessionLifecycle ==
    /\ FlagFollowsSession
    /\ [](ClientCalled("connect") /\ ~ret.val => ~connected)

\* ------------------------------------------------- claims on input errors

\* A client has called load_symbols_from_file; ret.file tells on what file.
LoadCalled == driver = "api" /\ stack = <<>> /\ "file" \in DOMAIN ret

\* A missing file raises FileNotFoundError, a file of another format
\* ValueError, and the call issues no call to the session; and no result
\* of create_watchlist_from_symbols reports success without a resolved
\* contract.
InputErrorsRaised ==
    /\ [](LoadCalled =>
            /\ ~ret.file.exists
                  => ret.kind = "exc" /\ ret.val = "FileNotFoundError"
            /\ (/\ ret.file.exists
                /\ ret.file.suffix \notin {".txt", ".json", ".csv"})
                  => ret.kind = "exc" /\ ret.val = "ValueError")
    /\ [][Idle /\ "file" \in DOMAIN ret'
             => UNCHANGED <<op_calls, calls, connected>>]_vars
    /\ [][CwReturnsResult /\ ret'.val.success
             => ret'.val.successful_contracts # <<>>]_vars

\* C18, as stated: input errors are raised as stated, and when the script
\* ends on a file without symbols no qualification call has been issued.
C18_NoCallBeforeFailure ==
    /\ InputErrorsRaised
    /\ [](ScriptEndedEmpty => ret = Value(FALSE) /\ op_calls = 0)

\* C18, amended: input errors are raised as stated; when the script ends on
\* a file without symbols it returns False without a call of
\* create_watchlist_from_symbols, and the one qualification call issued by
\* then is that of the connection test, which comes before the loading.
C18_InputErrors ==
    /\ InputErrorsRaised
    /\ [](ScriptEndedEmpty =>
            ret = Value(FALSE) /\ cw_symbols = <<>> /\ op_calls = 1)

\* A client called load_symbols_from_file on an .xml file.
C18_Witness ==
    /\ LoadCalled
    /\ ret.file.exists
    /\ ret.file.suffix \notin {".txt", ".json", ".csv"}
    /\ ret.kind = "exc"

\* ------------------------------------------------- claims on search_ticker

Searched == search_result # Unset

\* The terms of the chain the loop queries: those of two characters or more.
Usable(terms) == SelectSeq(terms, LAMBDA term : Len(term) >= 2)

QueriedTerms == [n \in 1..Len(queries) |-> queries[n].term]

IsPrefix(short, long) ==
    /\ Len(short) <= Len(long)
    /\ \A n \in 1..Len(short) : short[n] = long[n]

\* C8, as stated: when a query to the search service raises during the
\* task of a name, the result of the task is null.
C8_RaiseGivesNull ==
    (Searched /\ \E n \in 1..Len(queries) : queries[n].response.raises)
        => search_result = None

\* C8, amended: an exception of a query is caught inside the task, which
\* returns null or a ticker; the term that raised counts as not accepted
\* and the next term of the chain is queried, so the result is null only
\* when no later term is accepted; after a raise at the last term it is
\* null.
C8_RaiseSkipsTerm ==
    Searched =>
        /\ search_result = None \/ search_result.str # ""
        /\ \A n \in 1..Len(queries) :
              queries[n].response.raises =>
                  LET usable == Usable(SearchTerms(supplier))
                  IN  IF n < Len(usable)
                      THEN /\ Len(queries) > n
                           /\ queries[n + 1].term = usable[n + 1]
                      ELSE search_result = None

\* The first query raised and the second term gave the ticker.
C8_Witness ==
    /\ Searched
    /\ Len(queries) = 2
    /\ queries[1].response.raises
    /\ search_result = Str("FOO")

\* C9: the terms queried for a name are, in order, the name, the name
\* without suffixes if it differs from the name, and the first word if it
\* is longer than 2 characters, duplicates collapsed so that no term is
\* queried twice; no term shorter than 2 characters is queried.
C9_ChainCollapsed ==
    Searched =>
        /\ NoDuplicates(QueriedTerms)
        /\ \A n \in 1..Len(queries) : Len(queries[n].term) >= 2
        /\ Split(supplier) # <<>>
              => IsPrefix(QueriedTerms, Usable(SearchTerms(supplier)))

\* The acceptance C10 states: the response has a result and the first one
\* is an equity or has no type.
StatedAccepts(response) ==
    /\ ~response.raises
    /\ Len(response.quotes) > 0
    /\ response.quotes[1].quoteType \in {"EQUITY", "equity", NoType}

\* C10 with accepted(response) as the acceptance: the terms are queried in
\* chain order, every query but the last is not accepted, the result is the
\* first symbol of the last query when that one is accepted, and null when
\* no query is accepted.
ChainRuns(accepted(_)) ==
    Searched /\ Split(supplier) # <<>> =>
        LET usable == Usable(SearchTerms(supplier))
            last == Len(queries)
        IN  /\ IsPrefix(QueriedTerms, usable)
            /\ \A n \in 1..(last - 1) : ~accepted(queries[n].response)
            /\ IF last > 0 /\ accepted(queries[last].response)
               THEN search_result = Str(queries[last].response.quotes[1].symbol)
               ELSE last = Len(usable) /\ search_result = None

\* C10, as stated: a term is accepted exactly when its response has a
\* result and the first result is an equity or has no type.
C10_AcceptedAsStated == ChainRuns(StatedAccepts)

\* C10, amended: a term is accepted exactly when its response has a
\* result, the first result has a symbol that is not empty, and the first
\* result is an equity or has no type; the rest as stated.
C10_AcceptedWithSymbol ==
    ChainRuns(LAMBDA response :
                 /\ StatedAccepts(response)
                 /\ response.quotes[1].symbol # "")

\* The first answer starts with an equity without symbol and holds a
\* second quote; the second term gave the ticker.
C10_Witness ==
    /\ Searched
    /\ Len(queries) = 2
    /\ queries[1].response =
           Answer(<<Quote("", "EQUITY"), Quote("FOO", "EQUITY")>>)
    /\ search_result = Str("FOO")

====
